---- MODULE Spec2Model ----
(***************************************************************************)
(* The user endpoints of server.js (registration, user reads, Add-address, *)
(* Login) as a state machine over the `users` table.                       *)
(*                                                                         *)
(* Every handler is an async function: it runs without interruption up to  *)
(* its first `await`, and every awaited database statement is executed by  *)
(* the database at some later moment, so the handlers of different         *)
(* requests interleave at their awaits.  One action below is one such      *)
(* uninterrupted piece: the execution of the awaited statement together    *)
(* with the code that runs on its result, up to the next await or the      *)
(* response.                                                               *)
(*                                                                         *)
(* A text is a sequence of one-character strings, so that what             *)
(* JSON.stringify writes and what is read back can be told apart from the  *)
(* list it stands for.                                                     *)
(***************************************************************************)
EXTENDS Integers, Sequences, FiniteSets, TLC

VARIABLES
    addressesColumn,  \* the type of the column users.addresses in the database
    users,            \* the rows of table `users`, in id order (row i has id i)
    received,         \* number of requests received so far
    reqs              \* per handler slot, the request it handles or handled last

vars == <<addressesColumn, users, received, reqs>>

----------------------------------------------------------------------------
(* Bounds of the model. *)

MaxRequests == 3    \* requests received in one run
MaxInflight == 2    \* requests handled at the same time

Conns == 1..MaxInflight

(* Request bodies.  "" stands for an absent or empty field: both are falsy. *)
RegisterBodies ==
    { [name |-> "n", email |-> "x", password |-> "p"],
      [name |-> "n", email |-> "x", password |-> "q"],
      [name |-> "",  email |-> "x", password |-> "p"] }

LoginBodies ==
    { [email |-> "x", password |-> "p"],
      [email |-> "x", password |-> "q"],
      [email |-> "y", password |-> "p"],
      [email |-> "",  password |-> "p"],
      [email |-> "x", password |-> ""] }

AddressBodies ==
    { [street |-> "a", city |-> "c", country |-> "d"],
      [street |-> "b", city |-> "c", country |-> "d"],
      [street |-> "",  city |-> "c", country |-> "d"],
      [street |-> "a", city |-> "",  country |-> "d"],
      [street |-> "a", city |-> "c", country |-> ""] }

(* The ids requests name in their path. *)
UserIds == {1, 2}

----------------------------------------------------------------------------
(* The column users.addresses.  server.js reads and writes it with raw SQL *)
(* and never declares it (the Sequelize model User has no such attribute,  *)
(* and sequelize.sync() leaves an existing table alone), so its type is    *)
(* whatever the database was created with.  With a JSON column mysql2      *)
(* hands the handler the parsed value; with a TEXT/VARCHAR column (and     *)
(* with MariaDB, where JSON is an alias of LONGTEXT) it hands the stored   *)
(* string.  A database without the column fails every statement that       *)
(* names it, which is the QueryThrows behaviour below.                     *)
ColumnTypes == {"JSON", "TEXT"}

QUOTE == "\""
BACKSLASH == "\\"

(* JavaScript values that can be elements of the address array. *)
StringValue(c) ==
    [t |-> "string", s |-> c, street |-> "", city |-> "", country |-> ""]

ObjectValue(street, city, country) ==
    [t |-> "object", s |-> "", street |-> street, city |-> city, country |-> country]

KeyStreet == <<"s", "t", "r", "e", "e", "t">>
KeyCity == <<"c", "i", "t", "y">>
KeyCountry == <<"c", "o", "u", "n", "t", "r", "y">>

(* JSON.stringify of a string of at most one character. *)
StringifyString(s) ==
    <<QUOTE>> \o
    (IF s = "" THEN <<>>
     ELSE IF s \in {QUOTE, BACKSLASH} THEN <<BACKSLASH, s>>
     ELSE <<s>>) \o
    <<QUOTE>>

StringifyKey(k) == <<QUOTE>> \o k \o <<QUOTE, ":">>

StringifyElement(e) ==
    IF e.t = "string" THEN StringifyString(e.s)
    ELSE <<"{">> \o StringifyKey(KeyStreet) \o StringifyString(e.street) \o <<",">>
                 \o StringifyKey(KeyCity) \o StringifyString(e.city) \o <<",">>
                 \o StringifyKey(KeyCountry) \o StringifyString(e.country) \o <<"}">>

RECURSIVE StringifyElements(_)
StringifyElements(list) ==
    IF list = <<>> THEN <<>>
    ELSE IF Len(list) = 1 THEN StringifyElement(list[1])
    ELSE StringifyElements(SubSeq(list, 1, Len(list) - 1)) \o <<",">>
         \o StringifyElement(list[Len(list)])

(* JSON.stringify(updatedAddresses) *)
JSONstringify(list) == <<"[">> \o StringifyElements(list) \o <<"]">>

(* JSON.parse of a text that JSONstringify wrote: the parse mysql2 applies  *)
(* to the value of a JSON column.                                           *)
ParseString(t, i) ==
    IF t[i + 1] = QUOTE THEN [val |-> "", next |-> i + 2]
    ELSE IF t[i + 1] = BACKSLASH THEN [val |-> t[i + 2], next |-> i + 4]
    ELSE [val |-> t[i + 1], next |-> i + 3]

RECURSIVE KeyEnd(_, _)
KeyEnd(t, j) == IF t[j] = QUOTE THEN j ELSE KeyEnd(t, j + 1)

RECURSIVE ParseMembers(_, _, _)
ParseMembers(t, i, obj) ==
    LET close == KeyEnd(t, i + 1)
        key == SubSeq(t, i + 1, close - 1)
        v == ParseString(t, close + 2)
        next == IF key = KeyStreet THEN [obj EXCEPT !.street = v.val]
                ELSE IF key = KeyCity THEN [obj EXCEPT !.city = v.val]
                ELSE IF key = KeyCountry THEN [obj EXCEPT !.country = v.val]
                ELSE obj
    IN  IF t[v.next] = "," THEN ParseMembers(t, v.next + 1, next)
        ELSE [val |-> next, next |-> v.next + 1]

ParseElement(t, i) ==
    IF t[i] = "{" THEN
        IF t[i + 1] = "}" THEN [val |-> ObjectValue("", "", ""), next |-> i + 2]
        ELSE ParseMembers(t, i + 1, ObjectValue("", "", ""))
    ELSE LET s == ParseString(t, i)
         IN  [val |-> StringValue(s.val), next |-> s.next]

RECURSIVE ParseElements(_, _, _)
ParseElements(t, i, acc) ==
    IF t[i] = "]" THEN acc
    ELSE LET e == ParseElement(t, i)
         IN  ParseElements(t, IF t[e.next] = "," THEN e.next + 1 ELSE e.next,
                           Append(acc, e.val))

JSONparse(t) == ParseElements(t, 2, <<>>)

----------------------------------------------------------------------------
(* bcrypt.  A digest carries its salt; compare hashes the candidate with    *)
(* the salt of the digest and compares.  bcrypt.hash draws a random salt:   *)
(* the salt is modelled by a value no other call has drawn.                 *)
bcryptHash(password, salt) == [salt |-> salt, digest |-> <<salt, password>>]

bcryptCompare(password, hash) == bcryptHash(password, hash.salt) = hash

(* jwt.sign({ userId: user.id, email: user.email }, JWT_SECRET, ...) *)
NoToken == [userId |-> 0, email |-> ""]

jwtSign(user) == [userId |-> user.id, email |-> user.email]

----------------------------------------------------------------------------
(* The table and the statements the handlers run on it. *)

NullColumn == [null |-> TRUE, text |-> <<>>]

(* INSERT INTO users (name, email, password) VALUES (?, ?, ?): the id is     *)
(* the next auto-increment value, and the columns the statement does not    *)
(* name take their defaults.                                                 *)
InsertUser(table, name, email, hashedPassword) ==
    Append(table, [id |-> Len(table) + 1, name |-> name, email |-> email,
                   password |-> hashedPassword, isAdmin |-> FALSE,
                   addresses |-> NullColumn])

(* SELECT * FROM users *)
SelectAll(table) == table

(* SELECT * FROM users WHERE id = ? *)
SelectById(table, id) == SelectSeq(table, LAMBDA u : u.id = id)

(* SELECT * FROM users WHERE email = ?  (rows come in primary-key order) *)
SelectByEmail(table, email) == SelectSeq(table, LAMBDA u : u.email = email)

(* What mysql2 delivers as rows[0].addresses for a stored column value. *)
DriverValue(column, col) ==
    IF col.null THEN [t |-> "null", text |-> <<>>, elems |-> <<>>]
    ELSE IF column = "JSON" THEN [t |-> "array", text |-> <<>>, elems |-> JSONparse(col.text)]
    ELSE [t |-> "string", text |-> col.text, elems |-> <<>>]

(* SELECT addresses FROM users WHERE id = ? *)
SelectAddresses(column, table, id) ==
    LET found == SelectById(table, id)
    IN  [i \in 1..Len(found) |-> [addresses |-> DriverValue(column, found[i].addresses)]]

(* const currentAddresses = rows[0].addresses || [], as the spread          *)
(* [...currentAddresses, newAddress] sees it: a string spreads into its     *)
(* characters, and null and the empty string are falsy.                     *)
CurrentAddresses(v) ==
    IF v.t = "array" THEN v.elems
    ELSE IF v.t = "string" THEN [i \in 1..Len(v.text) |-> StringValue(v.text[i])]
    ELSE <<>>

(* const updatedAddresses = [...currentAddresses, newAddress] *)
UpdatedAddresses(currentAddresses, newAddress) == Append(currentAddresses, newAddress)

(* UpdateAddresses without its WHERE clause. *)
UpdateAddressesEveryRow(table, id, text) ==
    [i \in 1..Len(table) |-> [table[i] EXCEPT !.addresses = [null |-> FALSE, text |-> text]]]

(* UPDATE users SET addresses = ? WHERE id = ? *)
UpdateAddresses(table, id, text) ==
    [i \in 1..Len(table) |->
        IF table[i].id = id
        THEN [table[i] EXCEPT !.addresses = [null |-> FALSE, text |-> text]]
        ELSE table[i]]

----------------------------------------------------------------------------
(* Requests and responses. *)

NoResponse == [status |-> 0, message |-> "", error |-> "", token |-> NoToken, data |-> <<>>]

(* res.status(code).json({ message }) *)
MessageResponse(code, message) == [NoResponse EXCEPT !.status = code, !.message = message]

(* res.status(500).json({ error }) *)
ErrorResponse(error) == [NoResponse EXCEPT !.status = 500, !.error = error]

(* res.json(rows) *)
DataResponse(rows) == [NoResponse EXCEPT !.status = 200, !.data = rows]

(* res.status(200).json({ message: 'Inicio de sesión exitoso', token }) *)
TokenResponse(token) ==
    [NoResponse EXCEPT !.status = 200, !.message = "Inicio de sesión exitoso", !.token = token]

(* A handler slot: the request (kind, path id, body), where the handler is  *)
(* (pc), its locals (rows, currentAddresses, updatedAddresses,              *)
(* passwordMatch), whether its catch block ran (threw), how many times it   *)
(* called pool.query (queries) and answered (responses), and its response.  *)
Idle ==
    [kind |-> "idle", pc |-> "idle", userId |-> 0,
     name |-> "", email |-> "", password |-> "",
     street |-> "", city |-> "", country |-> "",
     rows |-> <<>>, currentAddresses |-> <<>>, updatedAddresses |-> <<>>,
     passwordMatch |-> FALSE, threw |-> FALSE,
     queries |-> 0, responses |-> 0, res |-> NoResponse]

(* A new request is handled in the first slot that handles none. *)
Free(c) ==
    /\ received < MaxRequests
    /\ reqs[c].pc \in {"idle", "done"}
    /\ \A d \in 1..(c - 1) : reqs[d].pc \notin {"idle", "done"}

(* The handler sends its response and ends. *)
Respond(r, response) ==
    [r EXCEPT !.pc = "done", !.res = response, !.responses = r.responses + 1]

(* The handler calls pool.query and awaits it. *)
Query(r, stmt) == [r EXCEPT !.pc = stmt, !.queries = r.queries + 1]

TypeOK ==
    /\ addressesColumn \in ColumnTypes
    /\ received \in 0..MaxRequests
    /\ Len(users) <= received
    /\ \A i \in 1..Len(users) : users[i].id = i
    /\ \A c \in Conns :
        /\ reqs[c].kind \in {"idle", "register", "getUsers", "getUser", "addAddress", "login"}
        /\ reqs[c].pc \in {"idle", "insert", "select", "update", "compare", "done"}
        /\ reqs[c].queries \in 0..2
        /\ reqs[c].responses \in 0..1

Init ==
    /\ addressesColumn \in ColumnTypes
    /\ users = <<>>
    /\ received = 0
    /\ reqs = [c \in Conns |-> Idle]

----------------------------------------------------------------------------
(* app.post('/users') *)

(* The handler up to its first await: the validation, then bcrypt.hash and   *)
(* the INSERT are awaited.                                                   *)
ReceiveRegister(c, name, email, password) ==
    /\ Free(c)
    /\ LET r == [Idle EXCEPT !.kind = "register", !.name = name,
                             !.email = email, !.password = password]
       IN  reqs' = [reqs EXCEPT ![c] =
                IF name = "" \/ email = "" \/ password = ""
                THEN Respond(r, MessageResponse(400, "Todos los campos son obligatorios"))
                ELSE Query(r, "insert")]
    /\ received' = received + 1
    /\ UNCHANGED <<addressesColumn, users>>

(* bcrypt.hash(password, 10) with a fresh salt, the INSERT, and the 201.     *)
(* bcrypt.hash touches nothing shared, so it is taken in one step with the   *)
(* INSERT that follows it.                                                   *)
RegisterInsert(c) ==
    /\ reqs[c].kind = "register" /\ reqs[c].pc = "insert"
    /\ LET hashedPassword == bcryptHash(reqs[c].password, Len(users) + 1)
       IN  users' = InsertUser(users, reqs[c].name, reqs[c].email, hashedPassword)
    /\ reqs' = [reqs EXCEPT ![c] =
            Respond(@, MessageResponse(201, "Usuario registrado correctamente"))]
    /\ UNCHANGED <<addressesColumn, received>>

----------------------------------------------------------------------------
(* app.get('/users') and app.get('/users/:id') *)

ReceiveGetUsers(c) ==
    /\ Free(c)
    /\ reqs' = [reqs EXCEPT ![c] = Query([Idle EXCEPT !.kind = "getUsers"], "select")]
    /\ received' = received + 1
    /\ UNCHANGED <<addressesColumn, users>>

GetUsersSelect(c) ==
    /\ reqs[c].kind = "getUsers" /\ reqs[c].pc = "select"
    /\ reqs' = [reqs EXCEPT ![c] = Respond(@, DataResponse(SelectAll(users)))]
    /\ UNCHANGED <<addressesColumn, users, received>>

ReceiveGetUser(c, id) ==
    /\ Free(c)
    /\ reqs' = [reqs EXCEPT ![c] =
            Query([Idle EXCEPT !.kind = "getUser", !.userId = id], "select")]
    /\ received' = received + 1
    /\ UNCHANGED <<addressesColumn, users>>

GetUserAfterSelect(r, rows) ==
    IF Len(rows) = 0
    THEN Respond(r, MessageResponse(404, "Usuario no encontrado"))
    ELSE Respond(r, DataResponse(<<rows[1]>>))

GetUserSelect(c) ==
    /\ reqs[c].kind = "getUser" /\ reqs[c].pc = "select"
    /\ reqs' = [reqs EXCEPT ![c] = GetUserAfterSelect(@, SelectById(users, reqs[c].userId))]
    /\ UNCHANGED <<addressesColumn, users, received>>

----------------------------------------------------------------------------
(* app.put('/users/:id/addresses') *)

(* AddressFieldsMissing without the test of country. *)
AddressFieldsMissingNoCountry(street, city, country) == street = "" \/ city = ""

(* !street || !city || !country *)
AddressFieldsMissing(street, city, country) == street = "" \/ city = "" \/ country = ""

ReceiveAddAddress(c, id, street, city, country) ==
    /\ Free(c)
    /\ LET r == [Idle EXCEPT !.kind = "addAddress", !.userId = id, !.street = street,
                             !.city = city, !.country = country]
       IN  reqs' = [reqs EXCEPT ![c] =
                IF AddressFieldsMissing(street, city, country)
                THEN Respond(r, MessageResponse(400, "Todos los campos son obligatorios"))
                ELSE Query(r, "select")]
    /\ received' = received + 1
    /\ UNCHANGED <<addressesColumn, users>>

(* AddAddressAfterSelect without the 404: no row is taken as no address yet. *)
AddAddressAfterSelectNoCheck(r, rows) ==
    LET currentAddresses == IF Len(rows) = 0 THEN <<>> ELSE CurrentAddresses(rows[1].addresses)
        newAddress == ObjectValue(r.street, r.city, r.country)
    IN  Query([r EXCEPT !.rows = rows,
                        !.currentAddresses = currentAddresses,
                        !.updatedAddresses = UpdatedAddresses(currentAddresses, newAddress)],
              "update")

(* The code on the result of the SELECT, up to the awaited UPDATE. *)
AddAddressAfterSelect(r, rows) ==
    IF Len(rows) = 0
    THEN Respond([r EXCEPT !.rows = rows], MessageResponse(404, "Usuario no encontrado"))
    ELSE LET currentAddresses == CurrentAddresses(rows[1].addresses)
             newAddress == ObjectValue(r.street, r.city, r.country)
         IN  Query([r EXCEPT !.rows = rows,
                             !.currentAddresses = currentAddresses,
                             !.updatedAddresses = UpdatedAddresses(currentAddresses, newAddress)],
                   "update")

AddAddressSelect(c) ==
    /\ reqs[c].kind = "addAddress" /\ reqs[c].pc = "select"
    /\ reqs' = [reqs EXCEPT ![c] =
            AddAddressAfterSelect(@, SelectAddresses(addressesColumn, users, reqs[c].userId))]
    /\ UNCHANGED <<addressesColumn, users, received>>

(* AddAddressUpdate appending in the database, to the list as it is when    *)
(* the UPDATE runs, instead of writing the list the handler read.          *)
AddAddressUpdateInPlace(c) ==
    /\ reqs[c].kind = "addAddress" /\ reqs[c].pc = "update"
    /\ LET now == SelectAddresses(addressesColumn, users, reqs[c].userId)
           newAddress == ObjectValue(reqs[c].street, reqs[c].city, reqs[c].country)
       IN  users' = IF Len(now) = 0 THEN users
                    ELSE UpdateAddresses(users, reqs[c].userId,
                            JSONstringify(Append(CurrentAddresses(now[1].addresses), newAddress)))
    /\ reqs' = [reqs EXCEPT ![c] =
            Respond(@, MessageResponse(200, "Dirección agregada correctamente"))]
    /\ UNCHANGED <<addressesColumn, received>>

(* The UPDATE and the 200. *)
AddAddressUpdate(c) ==
    /\ reqs[c].kind = "addAddress" /\ reqs[c].pc = "update"
    /\ users' = UpdateAddresses(users, reqs[c].userId, JSONstringify(reqs[c].updatedAddresses))
    /\ reqs' = [reqs EXCEPT ![c] =
            Respond(@, MessageResponse(200, "Dirección agregada correctamente"))]
    /\ UNCHANGED <<addressesColumn, received>>

----------------------------------------------------------------------------
(* app.post('/login') *)

(* !email || !password *)
CredentialsMissing(email, password) == email = "" \/ password = ""

ReceiveLogin(c, email, password) ==
    /\ Free(c)
    /\ LET r == [Idle EXCEPT !.kind = "login", !.email = email, !.password = password]
       IN  reqs' = [reqs EXCEPT ![c] =
                IF CredentialsMissing(email, password)
                THEN Respond(r, MessageResponse(400, "Email y password son obligatorios"))
                ELSE Query(r, "select")]
    /\ received' = received + 1
    /\ UNCHANGED <<addressesColumn, users>>

(* LoginAfterSelect answering an unknown email the way the other handlers    *)
(* answer an unknown id.                                                     *)
LoginAfterSelectNotFound(r, rows) ==
    IF Len(rows) = 0
    THEN Respond([r EXCEPT !.rows = rows], MessageResponse(404, "Usuario no encontrado"))
    ELSE [r EXCEPT !.rows = rows, !.pc = "compare"]

(* The code on the result of the SELECT by email, up to the awaited compare. *)
LoginAfterSelect(r, rows) ==
    IF Len(rows) = 0
    THEN Respond([r EXCEPT !.rows = rows], MessageResponse(400, "Credenciales inválidas"))
    ELSE [r EXCEPT !.rows = rows, !.pc = "compare"]

LoginSelect(c) ==
    /\ reqs[c].kind = "login" /\ reqs[c].pc = "select"
    /\ reqs' = [reqs EXCEPT ![c] = LoginAfterSelect(@, SelectByEmail(users, reqs[c].email))]
    /\ UNCHANGED <<addressesColumn, users, received>>

(* LoginAfterCompare signing the token without looking at passwordMatch. *)
LoginAfterCompareNoTest(r, passwordMatch) ==
    Respond([r EXCEPT !.passwordMatch = passwordMatch], TokenResponse(jwtSign(r.rows[1])))

(* The code on the result of bcrypt.compare(password, user.password), with   *)
(* user = rows[0].                                                           *)
LoginAfterCompare(r, passwordMatch) ==
    IF passwordMatch
    THEN Respond([r EXCEPT !.passwordMatch = TRUE], TokenResponse(jwtSign(r.rows[1])))
    ELSE Respond([r EXCEPT !.passwordMatch = FALSE],
                 MessageResponse(400, "Credenciales inválidas"))

LoginCompare(c) ==
    /\ reqs[c].kind = "login" /\ reqs[c].pc = "compare"
    /\ reqs' = [reqs EXCEPT ![c] =
            LoginAfterCompare(@, bcryptCompare(reqs[c].password, reqs[c].rows[1].password))]
    /\ UNCHANGED <<addressesColumn, users, received>>

----------------------------------------------------------------------------
(* The catch blocks: the awaited statement rejects (the database is down,   *)
(* the statement names a column the table does not have, ...).              *)
CatchResponse(kind) ==
    IF kind = "getUsers" THEN MessageResponse(500, "Error al obtener los usuarios")
    ELSE IF kind = "getUser" THEN MessageResponse(500, "Error al obtener el usuario")
    ELSE ErrorResponse("Error interno del servidor")

QueryThrows(c) ==
    /\ reqs[c].pc \in {"insert", "select", "update"}
    /\ reqs' = [reqs EXCEPT ![c] = Respond([@ EXCEPT !.threw = TRUE], CatchResponse(@.kind))]
    /\ UNCHANGED <<addressesColumn, users, received>>

----------------------------------------------------------------------------
Next ==
    \E c \in Conns :
        \/ \E b \in RegisterBodies : ReceiveRegister(c, b.name, b.email, b.password)
        \/ RegisterInsert(c)
        \/ ReceiveGetUsers(c)
        \/ GetUsersSelect(c)
        \/ \E id \in UserIds : ReceiveGetUser(c, id)
        \/ GetUserSelect(c)
        \/ \E id \in UserIds, b \in AddressBodies :
                ReceiveAddAddress(c, id, b.street, b.city, b.country)
        \/ AddAddressSelect(c)
        \/ AddAddressUpdate(c)
        \/ \E b \in LoginBodies : ReceiveLogin(c, b.email, b.password)
        \/ LoginSelect(c)
        \/ LoginCompare(c)
        \/ QueryThrows(c)

Spec == Init /\ [][Next]_vars

----------------------------------------------------------------------------
(* Notions the properties below share. *)

(* No row of the table has this id. *)
UnknownId(id) == \A i \in 1..Len(users) : users[i].id # id

(* The address list of account id as the handler of the next request reads  *)
(* it back from `table`.                                                     *)
ReadBack(table, id) ==
    CurrentAddresses(SelectAddresses(addressesColumn, table, id)[1].addresses)

(* The entry an Add-address request asks to add. *)
NewAddress(r) == [t |-> "object", s |-> "", street |-> r.street, city |-> r.city,
                  country |-> r.country]

(* The 400 of Login for credentials it does not accept. *)
InvalidCredentials ==
    [status |-> 400, message |-> "Credenciales inválidas", error |-> "",
     token |-> NoToken, data |-> <<>>]

(* The 404 of Add-address. *)
UserNotFound ==
    [status |-> 404, message |-> "Usuario no encontrado", error |-> "",
     token |-> NoToken, data |-> <<>>]

(* A Login that was answered after its lookup returned no account. *)
UnknownEmailLogin(r) ==
    /\ r.kind = "login" /\ r.pc = "done" /\ ~r.threw
    /\ r.email # "" /\ r.password # ""
    /\ r.rows = <<>>

(* A Login that was answered after its lookup returned an account whose     *)
(* hash the password does not verify against.                               *)
WrongPasswordLogin(r) ==
    /\ r.kind = "login" /\ r.pc = "done" /\ ~r.threw
    /\ r.rows # <<>>
    /\ ~bcryptCompare(r.password, r.rows[1].password)

(* The step in which the UPDATE of the Add-address request in slot c runs   *)
(* on an existing account and the request is answered 200.                  *)
UpdateStep(c) ==
    /\ reqs[c].kind = "addAddress" /\ reqs[c].pc = "update"
    /\ ~UnknownId(reqs[c].userId)
    /\ reqs'[c].pc = "done" /\ reqs'[c].res.status = 200

----------------------------------------------------------------------------
(* C1: a Login answered after its lookup found no account, and a Login      *)
(* answered after its lookup found an account whose hash the password does  *)
(* not verify against, get the same response: status 400 with the message   *)
(* 'Credenciales inválidas', and nothing else.                              *)
C1_NonEnumerable ==
    \A c \in Conns :
        (UnknownEmailLogin(reqs[c]) \/ WrongPasswordLogin(reqs[c]))
            => reqs[c].res = InvalidCredentials

(* Both cases side by side: an email no account has, and a wrong password. *)
C1_Witness ==
    \E c1, c2 \in Conns :
        /\ UnknownEmailLogin(reqs[c1])
        /\ \A i \in 1..Len(users) : users[i].email # reqs[c1].email
        /\ WrongPasswordLogin(reqs[c2])
        /\ reqs[c1].res = reqs[c2].res

----------------------------------------------------------------------------
(* C2: an Add-address request that no other request interleaves with and    *)
(* that is answered 200 leaves the list, as the next request reads it back, *)
(* equal to the list it read followed by its input.                         *)
C2_AppendOnly ==
    [][\A c \in Conns :
        ( /\ UpdateStep(c)
          /\ \A d \in Conns \ {c} : reqs[d].pc \in {"idle", "done"}
          /\ ReadBack(users, reqs[c].userId) = reqs[c].currentAddresses )
        => ReadBack(users', reqs[c].userId)
                = Append(reqs[c].currentAddresses, NewAddress(reqs[c]))]_vars

(* The same with a JSON column, where it holds. *)
C2_JsonColumn ==
    [][\A c \in Conns :
        ( /\ addressesColumn = "JSON"
          /\ UpdateStep(c)
          /\ ReadBack(users, reqs[c].userId) = reqs[c].currentAddresses )
        => ReadBack(users', reqs[c].userId)
                = Append(reqs[c].currentAddresses, NewAddress(reqs[c]))]_vars

----------------------------------------------------------------------------
(* C3: when the UPDATE of an Add-address request runs after another         *)
(* Add-address request for the same account, which read the same list, was  *)
(* answered 200, the request is answered 200 too and the stored list is the *)
(* list it read followed by its own entry alone: the entry of the other     *)
(* request is overwritten.                                                  *)
C3_LostUpdate ==
    [][\A c1, c2 \in Conns :
        ( /\ c1 # c2
          /\ reqs[c2].kind = "addAddress" /\ reqs[c2].pc = "update"
          /\ ~UnknownId(reqs[c2].userId)
          /\ reqs'[c2].pc = "done" /\ ~reqs'[c2].threw
          /\ reqs[c1].kind = "addAddress" /\ reqs[c1].pc = "done"
          /\ reqs[c1].res.status = 200
          /\ reqs[c1].userId = reqs[c2].userId
          /\ reqs[c1].currentAddresses = reqs[c2].currentAddresses )
        => /\ reqs'[c2].res.status = 200
           /\ users'[reqs[c2].userId].addresses
                = [null |-> FALSE,
                   text |-> JSONstringify(Append(reqs[c2].currentAddresses,
                                                 NewAddress(reqs[c2])))]
           /\ addressesColumn = "JSON"
                => ReadBack(users', reqs[c2].userId)
                        = Append(reqs[c2].currentAddresses, NewAddress(reqs[c2]))]_vars

(* Two requests for one account read the same list, both were answered 200, *)
(* they asked to add different entries, and the list read back holds the    *)
(* list they read and one entry more: the entry of c2 and not that of c1.   *)
C3_Witness ==
    \E c1, c2 \in Conns :
        /\ c1 # c2
        /\ addressesColumn = "JSON"
        /\ reqs[c1].kind = "addAddress" /\ reqs[c2].kind = "addAddress"
        /\ reqs[c1].pc = "done" /\ reqs[c2].pc = "done"
        /\ reqs[c1].res.status = 200 /\ reqs[c2].res.status = 200
        /\ reqs[c1].userId = reqs[c2].userId
        /\ ~UnknownId(reqs[c1].userId)
        /\ reqs[c1].currentAddresses = reqs[c2].currentAddresses
        /\ NewAddress(reqs[c1]) # NewAddress(reqs[c2])
        /\ ReadBack(users, reqs[c1].userId)
                = Append(reqs[c2].currentAddresses, NewAddress(reqs[c2]))

----------------------------------------------------------------------------
(* C4: every change of the stored address list of an account keeps the      *)
(* entries it had, in their positions, and adds exactly one entry at the    *)
(* end.                                                                     *)
C4_AppendOnlyAlways ==
    [][\A i \in 1..Len(users) :
        users'[i].addresses # users[i].addresses
            => LET old == ReadBack(users, i)
                   new == ReadBack(users', i)
               IN  /\ Len(new) = Len(old) + 1
                   /\ SubSeq(new, 1, Len(old)) = old]_vars

(* The same with a JSON column, where a single request does append: the     *)
(* interleaving of two requests alone breaks it.                            *)
C4_JsonColumn ==
    [][\A i \in 1..Len(users) :
        (addressesColumn = "JSON" /\ users'[i].addresses # users[i].addresses)
            => LET old == ReadBack(users, i)
                   new == ReadBack(users', i)
               IN  /\ Len(new) = Len(old) + 1
                   /\ SubSeq(new, 1, Len(old)) = old]_vars

----------------------------------------------------------------------------
(* C5: a Login that is answered without a storage error is answered 200,    *)
(* with a token of the account's id and email, for every account that has   *)
(* the email of the request and was registered with its password.           *)
C5_LoginComplete ==
    \A c \in Conns :
        (reqs[c].kind = "login" /\ reqs[c].pc = "done" /\ ~reqs[c].threw)
            => \A i \in 1..Len(reqs[c].rows) :
                    bcryptCompare(reqs[c].password, reqs[c].rows[i].password)
                        => /\ reqs[c].res.status = 200
                           /\ reqs[c].res.token = [userId |-> reqs[c].rows[i].id,
                                                   email |-> reqs[c].rows[i].email]

----------------------------------------------------------------------------
(* C6: no response body holds the stored password hash of an account. *)
C6_NoHashInResponse ==
    \A c \in Conns :
        \A k \in 1..Len(reqs[c].res.data) :
            \A i \in 1..Len(users) :
                reqs[c].res.data[k].password # users[i].password

----------------------------------------------------------------------------
(* C7: the SELECT of an Add-address request whose id no account has ends    *)
(* the request: it is answered 404 'Usuario no encontrado' (500 when the    *)
(* SELECT itself fails), it has issued that one statement and no UPDATE,    *)
(* and the table is as it was: nothing written, no row created.             *)
C7_UnknownId ==
    [][\A c \in Conns :
        ( /\ reqs[c].kind = "addAddress" /\ reqs[c].pc = "select"
          /\ UnknownId(reqs[c].userId)
          /\ reqs'[c] # reqs[c] )
        => /\ users' = users
           /\ reqs'[c].pc = "done"
           /\ reqs'[c].queries = 1 /\ reqs'[c].responses = 1
           /\ IF reqs'[c].threw THEN reqs'[c].res.status = 500
              ELSE reqs'[c].res = UserNotFound]_vars

(* An Add-address request with valid fields answered 404, its id still      *)
(* unknown.                                                                  *)
C7_Witness ==
    \E c \in Conns :
        /\ reqs[c].kind = "addAddress" /\ reqs[c].pc = "done" /\ ~reqs[c].threw
        /\ reqs[c].street # "" /\ reqs[c].city # "" /\ reqs[c].country # ""
        /\ UnknownId(reqs[c].userId)
        /\ reqs[c].res = UserNotFound

----------------------------------------------------------------------------
(* C8: an Add-address request lacking street, city or country, and a Login  *)
(* request lacking email or password, is answered 400 at once, with no      *)
(* token, without one call of pool.query, and the step that receives it     *)
(* leaves the table as it was.                                              *)
IncompleteRequest(r) ==
    \/ r.kind = "addAddress" /\ (r.street = "" \/ r.city = "" \/ r.country = "")
    \/ r.kind = "login" /\ (r.email = "" \/ r.password = "")

C8_ValidationFirst ==
    /\ [](\A c \in Conns :
            IncompleteRequest(reqs[c])
                => /\ reqs[c].pc = "done"
                   /\ reqs[c].res.status = 400
                   /\ reqs[c].res.token = NoToken
                   /\ reqs[c].queries = 0
                   /\ reqs[c].responses = 1)
    /\ [][\A c \in Conns :
            (reqs'[c] # reqs[c] /\ IncompleteRequest(reqs'[c])) => users' = users]_vars

(* An incomplete Add-address request and an incomplete Login request, both  *)
(* answered, with accounts in the table.                                    *)
C8_Witness ==
    \E c1, c2 \in Conns :
        /\ reqs[c1].kind = "addAddress" /\ IncompleteRequest(reqs[c1])
        /\ reqs[c2].kind = "login" /\ IncompleteRequest(reqs[c2])
        /\ reqs[c1].res.status = 400 /\ reqs[c2].res.status = 400
        /\ Len(users) > 0

----------------------------------------------------------------------------
(* C9: a Login request goes from received to looked up to verified to       *)
(* answered and never back; it is answered 200 only by the step that        *)
(* follows the compare, its lookup having returned an account of the table  *)
(* and the compare of its password with the hash of that account having     *)
(* returned true, and then with the token of that account; it carries no    *)
(* token with any other status; it has answered exactly once when it is     *)
(* done and not before; and it can always take its next step.               *)
C9LoginState(c) ==
    LET r == reqs[c]
    IN  /\ r.pc \in {"select", "compare", "done"}
        /\ r.responses = (IF r.pc = "done" THEN 1 ELSE 0)
        /\ r.pc = "done" => r.res.status \in {200, 400, 500}
        /\ r.pc # "done" => r.res = NoResponse
        /\ r.pc = "compare" => r.rows # <<>> /\ ~r.threw
        /\ r.res.token # NoToken => r.res.status = 200
        /\ r.res.status = 200
            => /\ r.pc = "done" /\ ~r.threw /\ r.passwordMatch
               /\ r.rows # <<>>
               /\ r.rows[1].email = r.email
               /\ r.rows[1].password.digest = <<r.rows[1].password.salt, r.password>>
               /\ r.res.token = [userId |-> r.rows[1].id, email |-> r.rows[1].email]
               /\ \E i \in 1..Len(users) :
                    /\ users[i].id = r.rows[1].id
                    /\ users[i].email = r.rows[1].email
                    /\ users[i].password = r.rows[1].password
        /\ r.pc \in {"select", "compare"}
            => ENABLED (LoginSelect(c) \/ LoginCompare(c))

C9LoginStep(c) ==
    \/ /\ reqs[c].pc \in {"idle", "done"}
       /\ reqs'[c].pc \in {"select", "done"}
       /\ reqs'[c].res.status # 200
    \/ /\ reqs[c].kind = "login" /\ reqs[c].pc = "select"
       /\ reqs'[c].pc \in {"compare", "done"}
       /\ reqs'[c].res.status # 200
    \/ /\ reqs[c].kind = "login" /\ reqs[c].pc = "compare"
       /\ reqs'[c].pc = "done"
       /\ reqs'[c].rows = reqs[c].rows

C9_LoginOrder ==
    /\ [](\A c \in Conns : reqs[c].kind = "login" => C9LoginState(c))
    /\ [][\A c \in Conns :
            (reqs'[c] # reqs[c] /\ reqs'[c].kind = "login") => C9LoginStep(c)]_vars

(* A Login answered 200 with a token, one rejected after a lookup that      *)
(* found the account.                                                       *)
C9_Witness ==
    \E c1, c2 \in Conns :
        /\ reqs[c1].kind = "login" /\ reqs[c1].res.status = 200
        /\ reqs[c1].res.token # NoToken
        /\ reqs[c2].kind = "login" /\ reqs[c2].res.status = 400
        /\ reqs[c2].rows # <<>>

----------------------------------------------------------------------------
(* C10: no step removes an account or changes the id, name, email, isAdmin  *)
(* or password hash of one; a step of a Login request, and a step that      *)
(* receives any request, leaves the table as it was; and the address list   *)
(* of an account changes only in the step that runs the UPDATE of an        *)
(* Add-address request for that account, which changes no other account.    *)
C10Frame ==
    /\ Len(users') >= Len(users)
    /\ \A i \in 1..Len(users) :
        /\ users'[i].id = users[i].id
        /\ users'[i].name = users[i].name
        /\ users'[i].email = users[i].email
        /\ users'[i].isAdmin = users[i].isAdmin
        /\ users'[i].password = users[i].password
        /\ users'[i].addresses # users[i].addresses
            => \E c \in Conns :
                /\ reqs[c].kind = "addAddress" /\ reqs[c].pc = "update"
                /\ reqs[c].userId = users[i].id
                /\ reqs'[c].pc = "done"
    /\ \A c \in Conns :
        (reqs'[c] # reqs[c] /\ reqs'[c].kind = "login") => users' = users
    /\ \A c \in Conns :
        (reqs'[c] # reqs[c] /\ reqs'[c].kind = "addAddress")
            => /\ Len(users') = Len(users)
               /\ \A i \in 1..Len(users) :
                    users[i].id # reqs'[c].userId => users'[i] = users[i]

C10_Frame == [][C10Frame]_vars

(* An Add-address request has written the list of one of two accounts, and  *)
(* the other account has none.                                              *)
C10_Witness ==
    \E c \in Conns :
        /\ reqs[c].kind = "addAddress" /\ reqs[c].pc = "done"
        /\ reqs[c].res.status = 200
        /\ Len(users) >= 2
        /\ \E i, j \in 1..Len(users) :
            /\ i # j
            /\ users[i].id = reqs[c].userId
            /\ ~users[i].addresses.null
            /\ users[j].addresses.null

====
